---- MODULE Spec2Model ----
(***************************************************************************)
(* Order-session engine of src/src/pages/UserMenu.tsx: the availability    *)
(* flag, the cart, the submitter fields and handleSubmitOrder with its two *)
(* store calls (orders insert, then order_items insert).                   *)
(*                                                                         *)
(* Strings are sequences of one-character strings.  A handler runs to its  *)
(* next await as one step; every step sees the state of the last render.   *)
(* The specifications share the handlers:                                  *)
(*   Spec          events reach the handlers through the rendered          *)
(*                 controls (a disabled or unrendered control fires        *)
(*                 nothing);                                               *)
(*   SpecLive      Spec with a store that answers every call;              *)
(*   SpecOverlap   Spec with room in the store for one more order header,  *)
(*                 so that a second submission can start while the first   *)
(*                 is still awaiting the store;                            *)
(*   SpecHandlers  the handlers are called directly, with any argument;    *)
(*   SpecFields    the three change handlers alone, over more values;      *)
(*   SpecClock     the availability flag and the cart buttons, over more   *)
(*                 windows and clock readings;                             *)
(*   SpecTimed     the same with the time that passes between the events,  *)
(*                 in steps of 30 s (in the other specifications no time   *)
(*                 passes: now and intervalAge stay 0 and the clock        *)
(*                 readings are inputs).                                   *)
(* A store call that fails has written nothing.                            *)
(***************************************************************************)
EXTENDS Integers, Sequences, FiniteSets, TLC

\* ------------------------------------------------------------------ bounds
\* Most order headers the store is asked to hold (created or being created).
MaxOrders == 1

\* Steps of 30 s a timed session is followed for.
MaxNow == 8

\* ------------------------------------------------------------- characters
\* Representatives of the character classes of the three regular expressions.
AsciiLetters == {"J", "o", "k"}
Latin1Letters == {"ã"}
WhiteSpace == {" "}
Digits == {"0", "1", "2", "3", "4", "5"}
ObsPunctuation == {".", ",", "!", "?", "-"}

\* ------------------------------------------------------------- validators
\* /^[A-Za-zÀ-ÖØ-öø-ÿ\s]+$/
validateName(value) ==
    /\ Len(value) >= 1
    /\ \A i \in 1..Len(value) :
           value[i] \in AsciiLetters \cup Latin1Letters \cup WhiteSpace

\* /^\d{4}$/
validateRegistration(value) ==
    /\ Len(value) = 4
    /\ \A i \in 1..Len(value) : value[i] \in Digits

\* /^[A-Za-zÀ-ÖØ-öø-ÿ0-9\s.,!?-]*$/
validateObservations(value) ==
    \A i \in 1..Len(value) :
        value[i] \in AsciiLetters \cup Latin1Letters \cup Digits
                     \cup WhiteSpace \cup ObsPunctuation

\* ------------------------------------------------------------------ inputs
\* The optional dishes on the menu (id and name are all addToCart reads).
Dishes == { [id |-> "o1", name |-> "Feijoada"],
            [id |-> "o2", name |-> "Moqueca"] }

DishIds == {d.id : d \in Dishes} \cup {"zz"}

\* Values a change event may carry.
NameInputs == { <<>>, <<"J", "o", "ã", "o">>, <<"J", "1">> }
RegistrationInputs == { <<>>, <<"1", "2">>, <<"1", "2", "3", "4">>,
                        <<"1", "2", "k", "4">>, <<"1", "2", "3", "4", "5">> }
ObservationsInputs == { <<>>, <<"o", "k", "!">>, <<"#">> }

\* For the three change handlers alone: every value of at most two characters
\* over a letter of each class, a digit, a punctuation mark of the notes and
\* a character no field takes, two values with a space, and the values above.
FieldChars == {"J", "ã", "1", "!", "#"}
FieldValues ==
    {<<>>} \cup { <<a>> : a \in FieldChars }
           \cup { <<a, b>> : a \in FieldChars, b \in FieldChars }
           \cup { <<" ">>, <<"J", " ">> }
           \cup NameInputs \cup RegistrationInputs \cup ObservationsInputs

\* admin_settings rows; a time "HH:MM:SS" is held as its ':'-separated fields.
Windows == { [opening_time |-> <<9, 0, 0>>, closing_time |-> <<14, 0, 0>>] }

\* Readings of new Date(): getDay(), getHours(), getMinutes().
Times == { [day |-> 0, hours |-> 9, minutes |-> 0],
           [day |-> 1, hours |-> 9, minutes |-> 0],
           [day |-> 1, hours |-> 14, minutes |-> 1] }

\* A wider range of rows and readings, for the availability flag alone: a
\* window over lunch, one of a single minute (the seconds are not read), one
\* over the whole day and one that closes before it opens.
LunchWindow == [opening_time |-> <<9, 0, 0>>, closing_time |-> <<14, 0, 0>>]
OneMinuteWindow == [opening_time |-> <<11, 30, 0>>, closing_time |-> <<11, 30, 59>>]
AllDayWindow == [opening_time |-> <<0, 0, 0>>, closing_time |-> <<23, 59, 0>>]
InvertedWindow == [opening_time |-> <<14, 0, 0>>, closing_time |-> <<9, 0, 0>>]
ClockWindows == { LunchWindow, OneMinuteWindow, AllDayWindow, InvertedWindow }

ClockTimes == [ day : {0, 1, 6},
                hours : {0, 8, 9, 11, 13, 14, 23},
                minutes : {0, 1, 29, 30, 31, 59} ]

\* A timed session: the component mounts on a Monday at 13:59:00, one minute
\* before the lunch window's last minute and two before the late window's
\* first; time is counted in steps of 30 s.
LateWindow == [opening_time |-> <<14, 1, 0>>, closing_time |-> <<18, 0, 0>>]
TimedWindows == { LunchWindow, LateWindow }
SessionStart == [day |-> 1, hours |-> 13, minutes |-> 59]
StepsPerMinute == 60 \div 30

\* new Date() read n steps after the mount.
Reading(n) ==
    LET minute == SessionStart.hours * 60 + SessionStart.minutes
                      + (n \div StepsPerMinute)
    IN  [ day |-> SessionStart.day,
          hours |-> minute \div 60,
          minutes |-> minute % 60 ]

\* useState<AdminSettings | null>(null)
Null == [null |-> TRUE]

\* ------------------------------------------------------------------ notices
MsgClosed == "Restaurante fechado no momento"
MsgDuplicate == "Item já está no carrinho"
MsgAdded == "Item adicionado ao carrinho"
MsgRemoved == "Item removido do carrinho"
MsgName == "Por favor, insira um nome válido (apenas letras)"
MsgRegistration == "Por favor, insira uma matrícula válida (4 dígitos)"
MsgObservations == "Por favor, insira observações válidas (apenas texto e pontuação básica)"
MsgEmptyCart == "Adicione itens ao carrinho"
MsgSuccess == "Pedido realizado com sucesso!"
MsgFailure == "Erro ao realizar pedido"

\* ------------------------------------------------------------------- state
VARIABLES
    cart,          \* useState<CartItem[]>
    settings,      \* useState<AdminSettings | null>
    userName,      \* useState('')
    registration,  \* useState('')
    observations,  \* useState('')
    isStoreOpen,   \* useState(false)
    isCartOpen,    \* useState(false)
    inflight,      \* handleSubmitOrder calls suspended at an await
    orders,        \* table orders of the store; a row's id is its index
    order_items,   \* table order_items of the store
    toasts,        \* notices the last step emitted
    now,           \* steps of 30 s elapsed since the component mounted
    intervalAge    \* steps since the running setInterval was set or fired

vars == << cart, settings, userName, registration, observations, isStoreOpen,
           isCartOpen, inflight, orders, order_items, toasts, now,
           intervalAge >>

session == << cart, userName, registration, observations, isCartOpen >>
clock == << settings, isStoreOpen, now, intervalAge >>
store == << orders, order_items >>

Init ==
    /\ cart = <<>>
    /\ settings = Null
    /\ userName = <<>>
    /\ registration = <<>>
    /\ observations = <<>>
    /\ isStoreOpen = FALSE
    /\ isCartOpen = FALSE
    /\ inflight = <<>>
    /\ orders = <<>>
    /\ order_items = <<>>
    /\ toasts = <<>>
    /\ now = 0
    /\ intervalAge = 0

RemoveAt(s, i) == SubSeq(s, 1, i - 1) \o SubSeq(s, i + 1, Len(s))

\* --------------------------------------------------------- AvailabilityClock
\* Mutant of Period: setInterval(checkStoreStatus, 90000).
PeriodNinetySeconds == 90000 \div 30000

\* The delay of setInterval(checkStoreStatus, 60000), in steps of 30 s.
Period == 60000 \div 30000

\* settings.opening_time.split(':').map(Number), first two fields, in minutes.
MinutesOf(time) == time[1] * 60 + time[2]

\* Mutant of checkStoreStatus: the dayOfWeek === 0 branch is missing.
checkStoreStatusNoSunday(s, t, prev) ==
    IF s = Null THEN prev
    ELSE LET currentTime == t.hours * 60 + t.minutes
             openingTime == MinutesOf(s.opening_time)
             closingTime == MinutesOf(s.closing_time)
         IN  currentTime >= openingTime /\ currentTime <= closingTime

\* Mutant of checkStoreStatus: the closing bound is compared with <.
checkStoreStatusExclusiveClose(s, t, prev) ==
    IF s = Null THEN prev
    ELSE IF t.day = 0 THEN FALSE
    ELSE LET currentTime == t.hours * 60 + t.minutes
             openingTime == MinutesOf(s.opening_time)
             closingTime == MinutesOf(s.closing_time)
         IN  currentTime >= openingTime /\ currentTime < closingTime

\* The value checkStoreStatus leaves in isStoreOpen, called with settings s
\* when new Date() reads t and the flag is prev.
checkStoreStatus(s, t, prev) ==
    IF s = Null THEN prev
    ELSE IF t.day = 0 THEN FALSE
    ELSE LET currentTime == t.hours * 60 + t.minutes
             openingTime == MinutesOf(s.opening_time)
             closingTime == MinutesOf(s.closing_time)
         IN  currentTime >= openingTime /\ currentTime <= closingTime

\* Mutant of Tick: a recomputation that finds the window closed abandons the
\* calls in flight.
TickCancelsWhenClosed(t) ==
    /\ isStoreOpen' = checkStoreStatus(settings, t, isStoreOpen)
    /\ inflight' = IF isStoreOpen' THEN inflight ELSE <<>>
    /\ intervalAge' = 0
    /\ toasts' = <<>>
    /\ UNCHANGED << settings, now, session, store >>

\* setInterval(checkStoreStatus, 60000): one firing of the interval, at a
\* moment when new Date() reads t.  The interval starts its next period.
Tick(t) ==
    /\ isStoreOpen' = checkStoreStatus(settings, t, isStoreOpen)
    /\ intervalAge' = 0
    /\ toasts' = <<>>
    /\ UNCHANGED << settings, now, session, inflight, store >>

\* fetchSettings gets a row: it replaces settings, and the effect keyed on
\* settings runs again: its cleanup clears the interval, and it fetches again,
\* calls checkStoreStatus, when new Date() reads t, and sets a new interval.
\* (An answer without a row changes nothing and ends the fetching: no step.)
FetchSettingsDone(data, t) ==
    /\ settings' = data
    /\ isStoreOpen' = checkStoreStatus(data, t, isStoreOpen)
    /\ intervalAge' = 0
    /\ toasts' = <<>>
    /\ UNCHANGED << now, session, inflight, store >>

\* ------------------------------------------------------------------ CartStore
HasId(c, id) == \E i \in 1..Len(c) : c[i].id = id

\* Mutant of addToCart: the isStoreOpen check is missing.
addToCartNoClosedCheck(dish) ==
    IF HasId(cart, dish.id)
    THEN /\ toasts' = <<MsgDuplicate>>
         /\ UNCHANGED << session, clock, inflight, store >>
    ELSE /\ cart' = Append(cart, [id |-> dish.id, name |-> dish.name])
         /\ toasts' = <<MsgAdded>>
         /\ isCartOpen' = TRUE
         /\ UNCHANGED << userName, registration, observations, clock,
                         inflight, store >>

\* Mutant of addToCart: the cart.some(...) check is missing.
addToCartNoDuplicateCheck(dish) ==
    IF ~isStoreOpen
    THEN /\ toasts' = <<MsgClosed>>
         /\ UNCHANGED << session, clock, inflight, store >>
    ELSE /\ cart' = Append(cart, [id |-> dish.id, name |-> dish.name])
         /\ toasts' = <<MsgAdded>>
         /\ isCartOpen' = TRUE
         /\ UNCHANGED << userName, registration, observations, clock,
                         inflight, store >>

\* Mutant of addToCart: the new entry is put in front of the others.
addToCartInFront(dish) ==
    IF ~isStoreOpen
    THEN /\ toasts' = <<MsgClosed>>
         /\ UNCHANGED << session, clock, inflight, store >>
    ELSE IF HasId(cart, dish.id)
    THEN /\ toasts' = <<MsgDuplicate>>
         /\ UNCHANGED << session, clock, inflight, store >>
    ELSE /\ cart' = << [id |-> dish.id, name |-> dish.name] >> \o cart
         /\ toasts' = <<MsgAdded>>
         /\ isCartOpen' = TRUE
         /\ UNCHANGED << userName, registration, observations, clock,
                         inflight, store >>

addToCart(dish) ==
    IF ~isStoreOpen
    THEN /\ toasts' = <<MsgClosed>>
         /\ UNCHANGED << session, clock, inflight, store >>
    ELSE IF HasId(cart, dish.id)
    THEN /\ toasts' = <<MsgDuplicate>>
         /\ UNCHANGED << session, clock, inflight, store >>
    ELSE /\ cart' = Append(cart, [id |-> dish.id, name |-> dish.name])
         /\ toasts' = <<MsgAdded>>
         /\ isCartOpen' = TRUE
         /\ UNCHANGED << userName, registration, observations, clock,
                         inflight, store >>

KeepOthers(c, id) == SelectSeq(c, LAMBDA item : item.id # id)

\* Mutant of removeFromCart: the filter keeps the entries with the id.
removeFromCartKeepsId(id) ==
    /\ cart' = SelectSeq(cart, LAMBDA item : item.id = id)
    /\ toasts' = <<MsgRemoved>>
    /\ UNCHANGED << userName, registration, observations, isCartOpen, clock,
                    inflight, store >>

\* cart.filter(item => item.id !== id), and the notice
removeFromCart(id) ==
    /\ cart' = KeepOthers(cart, id)
    /\ toasts' = <<MsgRemoved>>
    /\ UNCHANGED << userName, registration, observations, isCartOpen, clock,
                    inflight, store >>

\* ------------------------------------------------------------ field handlers
handleNameChange(value) ==
    /\ IF value = <<>> \/ validateName(value)
       THEN userName' = value
       ELSE UNCHANGED userName
    /\ toasts' = <<>>
    /\ UNCHANGED << cart, registration, observations, isCartOpen, clock,
                    inflight, store >>

\* Mutant of handleRegistrationChange: the value.length <= 4 test is missing.
handleRegistrationChangeAnyLength(value) ==
    /\ IF \/ value = <<>>
          \/ (\A i \in 1..Len(value) : value[i] \in Digits)
       THEN registration' = value
       ELSE UNCHANGED registration
    /\ toasts' = <<>>
    /\ UNCHANGED << cart, userName, observations, isCartOpen, clock,
                    inflight, store >>

\* value === '' || (value.length <= 4 && /^\d*$/.test(value))
handleRegistrationChange(value) ==
    /\ IF \/ value = <<>>
          \/ (Len(value) <= 4 /\ \A i \in 1..Len(value) : value[i] \in Digits)
       THEN registration' = value
       ELSE UNCHANGED registration
    /\ toasts' = <<>>
    /\ UNCHANGED << cart, userName, observations, isCartOpen, clock,
                    inflight, store >>

\* Mutant of handleObservationsChange: the value is stored unchecked.
handleObservationsChangeUnchecked(value) ==
    /\ observations' = value
    /\ toasts' = <<>>
    /\ UNCHANGED << cart, userName, registration, isCartOpen, clock,
                    inflight, store >>

handleObservationsChange(value) ==
    /\ IF value = <<>> \/ validateObservations(value)
       THEN observations' = value
       ELSE UNCHANGED observations
    /\ toasts' = <<>>
    /\ UNCHANGED << cart, userName, registration, isCartOpen, clock,
                    inflight, store >>

\* onClick={() => setIsCartOpen(true)} and onClick={() => setIsCartOpen(false)}
setIsCartOpen(flag) ==
    /\ isCartOpen' = flag
    /\ toasts' = <<>>
    /\ UNCHANGED << cart, userName, registration, observations, clock,
                    inflight, store >>

\* ----------------------------------------------------- OrderSubmissionWorkflow
NoError == "ok"

\* Mutant of ValidationError: the cart check comes first.
ValidationErrorCartFirst(name, reg, obs, c) ==
    IF Len(c) = 0 THEN MsgEmptyCart
    ELSE IF name = <<>> \/ ~validateName(name) THEN MsgName
    ELSE IF reg = <<>> \/ ~validateRegistration(reg) THEN MsgRegistration
    ELSE IF obs # <<>> /\ ~validateObservations(obs) THEN MsgObservations
    ELSE NoError

\* The four checks of handleSubmitOrder, in the code's order: the notice of
\* the first one that fails, NoError when all pass.
ValidationError(name, reg, obs, c) ==
    IF name = <<>> \/ ~validateName(name) THEN MsgName
    ELSE IF reg = <<>> \/ ~validateRegistration(reg) THEN MsgRegistration
    ELSE IF obs # <<>> /\ ~validateObservations(obs) THEN MsgObservations
    ELSE IF Len(c) = 0 THEN MsgEmptyCart
    ELSE NoError

\* Order headers being created: calls suspended at the first await.
PendingHeaders == { i \in 1..Len(inflight) : inflight[i].phase = "PersistingHeader" }

\* Mutant of OrderItemsOf: dish_id is taken from item.name.
OrderItemsByName(c, orderId) ==
    [ i \in 1..Len(c) |-> [order_id |-> orderId, dish_id |-> c[i].name] ]

\* cart.map(item => ({ order_id: order.id, dish_id: item.id }))
OrderItemsOf(c, orderId) ==
    [ i \in 1..Len(c) |-> [order_id |-> orderId, dish_id |-> c[i].id] ]

\* handleSubmitOrder up to its first await.  The call keeps the cart and the
\* fields of the render it was made from.  maxOrders bounds the model: the
\* orders insert is issued while the store is asked for fewer headers.
handleSubmitOrderWithin(maxOrders) ==
    LET err == ValidationError(userName, registration, observations, cart) IN
    IF err # NoError
    THEN /\ toasts' = <<err>>
         /\ UNCHANGED << session, clock, inflight, store >>
    ELSE /\ Len(orders) + Cardinality(PendingHeaders) < maxOrders
         /\ inflight' = Append(inflight,
                [ phase |-> "PersistingHeader",
                  cart |-> cart,
                  header |-> [ user_name |-> userName,
                               registration |-> registration,
                               observations |-> observations ],
                  order |-> 0,
                  orderItems |-> <<>> ])
         /\ toasts' = <<>>
         /\ UNCHANGED << session, clock, store >>

\* Mutant of handleSubmitOrder: the return after a failed check is missing,
\* the call shows the notice and goes on to the orders insert.
handleSubmitOrderNoReturn ==
    LET err == ValidationError(userName, registration, observations, cart) IN
    /\ Len(orders) + Cardinality(PendingHeaders) < MaxOrders
    /\ inflight' = Append(inflight,
           [ phase |-> "PersistingHeader",
             cart |-> cart,
             header |-> [ user_name |-> userName,
                          registration |-> registration,
                          observations |-> observations ],
             order |-> 0,
             orderItems |-> <<>> ])
    /\ toasts' = IF err # NoError THEN <<err>> ELSE <<>>
    /\ UNCHANGED << session, clock, store >>

handleSubmitOrder == handleSubmitOrderWithin(MaxOrders)

\* The orders insert succeeds: the store adds the row and returns its id, and
\* the call goes on to issue the order_items insert.
HeaderCreated(i) ==
    /\ i \in 1..Len(inflight)
    /\ inflight[i].phase = "PersistingHeader"
    /\ orders' = Append(orders, inflight[i].header)
    /\ inflight' = [ inflight EXCEPT
                       ![i].phase = "PersistingItems",
                       ![i].order = Len(orders) + 1,
                       ![i].orderItems =
                           OrderItemsOf(inflight[i].cart, Len(orders) + 1) ]
    /\ toasts' = <<>>
    /\ UNCHANGED << session, clock, order_items >>

\* Mutant of HeaderFailed: the catch block empties the cart.
HeaderFailedClearsCart(i) ==
    /\ i \in 1..Len(inflight)
    /\ inflight[i].phase = "PersistingHeader"
    /\ inflight' = RemoveAt(inflight, i)
    /\ toasts' = <<MsgFailure>>
    /\ cart' = <<>>
    /\ UNCHANGED << userName, registration, observations, isCartOpen, clock,
                    store >>

\* Mutant of HeaderFailed: the catch block resets the submitter fields.
HeaderFailedResetsFields(i) ==
    /\ i \in 1..Len(inflight)
    /\ inflight[i].phase = "PersistingHeader"
    /\ inflight' = RemoveAt(inflight, i)
    /\ toasts' = <<MsgFailure>>
    /\ userName' = <<>>
    /\ registration' = <<>>
    /\ observations' = <<>>
    /\ UNCHANGED << cart, isCartOpen, clock, store >>

\* The orders insert fails: throw orderError, caught at the end of the call.
HeaderFailed(i) ==
    /\ i \in 1..Len(inflight)
    /\ inflight[i].phase = "PersistingHeader"
    /\ inflight' = RemoveAt(inflight, i)
    /\ toasts' = <<MsgFailure>>
    /\ UNCHANGED << session, clock, store >>

\* Mutant of ItemsCreated: the reset forgets setObservations('').
ItemsCreatedKeepsObservations(i) ==
    /\ i \in 1..Len(inflight)
    /\ inflight[i].phase = "PersistingItems"
    /\ order_items' = order_items \o inflight[i].orderItems
    /\ toasts' = <<MsgSuccess>>
    /\ cart' = <<>>
    /\ userName' = <<>>
    /\ registration' = <<>>
    /\ isCartOpen' = FALSE
    /\ inflight' = RemoveAt(inflight, i)
    /\ UNCHANGED << observations, clock, orders >>

\* The order_items insert succeeds: the store adds the rows, the call resets
\* the session.
ItemsCreated(i) ==
    /\ i \in 1..Len(inflight)
    /\ inflight[i].phase = "PersistingItems"
    /\ order_items' = order_items \o inflight[i].orderItems
    /\ toasts' = <<MsgSuccess>>
    /\ cart' = <<>>
    /\ userName' = <<>>
    /\ registration' = <<>>
    /\ observations' = <<>>
    /\ isCartOpen' = FALSE
    /\ inflight' = RemoveAt(inflight, i)
    /\ UNCHANGED << clock, orders >>

\* Mutant of ItemsFailed: itemsError is not caught, the call never ends.
ItemsFailedUncaught(i) ==
    /\ i \in 1..Len(inflight)
    /\ inflight[i].phase = "PersistingItems"
    /\ inflight' = [ inflight EXCEPT ![i].phase = "Faulted" ]
    /\ toasts' = <<>>
    /\ UNCHANGED << session, clock, store >>

\* Mutant of ItemsFailed: the catch block empties the cart as the success path does.
ItemsFailedClearsCart(i) ==
    /\ i \in 1..Len(inflight)
    /\ inflight[i].phase = "PersistingItems"
    /\ inflight' = RemoveAt(inflight, i)
    /\ toasts' = <<MsgFailure>>
    /\ cart' = <<>>
    /\ UNCHANGED << userName, registration, observations, isCartOpen, clock,
                    store >>

\* The order_items insert fails: throw itemsError, caught at the end of the call.
ItemsFailed(i) ==
    /\ i \in 1..Len(inflight)
    /\ inflight[i].phase = "PersistingItems"
    /\ inflight' = RemoveAt(inflight, i)
    /\ toasts' = <<MsgFailure>>
    /\ UNCHANGED << session, clock, store >>

\* ------------------------------------------------------------------- controls
\* disabled={!isStoreOpen} of the "Adicionar ao Pedido" button
AddDisabled == ~isStoreOpen

\* Mutant of SubmitDisabled: the !isStoreOpen term is missing.
SubmitDisabledCartOnly == Len(cart) = 0

\* disabled={!isStoreOpen || cart.length === 0} of the "Enviar Pedido" button
SubmitDisabled == ~isStoreOpen \/ Len(cart) = 0

ClickAdd(dish) == ~AddDisabled /\ addToCart(dish)

\* The "Remover" button of a listed entry; the list is in the cart panel.
ClickRemove(id) == isCartOpen /\ HasId(cart, id) /\ removeFromCart(id)

\* The inputs and the submit button are in the cart panel.
TypeName(value) == isCartOpen /\ handleNameChange(value)
TypeRegistration(value) == isCartOpen /\ handleRegistrationChange(value)
TypeObservations(value) == isCartOpen /\ handleObservationsChange(value)
ClickSubmitWithin(maxOrders) ==
    isCartOpen /\ ~SubmitDisabled /\ handleSubmitOrderWithin(maxOrders)
ClickSubmit == ClickSubmitWithin(MaxOrders)

\* The floating cart button, and the X of the panel.
ClickCartButton == setIsCartOpen(TRUE)
ClickClosePanel == isCartOpen /\ setIsCartOpen(FALSE)

\* ------------------------------------------------------------- specifications
\* Positions a suspended call can have in inflight.
Calls == 1..(MaxOrders + 1)

\* The timer, the answers of fetchSettings and the answers of the store.
Environment ==
    \/ \E t \in Times : Tick(t)
    \/ \E data \in Windows, t \in Times : FetchSettingsDone(data, t)
    \/ \E i \in Calls : HeaderCreated(i)
    \/ \E i \in Calls : HeaderFailed(i)
    \/ \E i \in Calls : ItemsCreated(i)
    \/ \E i \in Calls : ItemsFailed(i)

\* The rendered controls other than the submit button.
Controls ==
    \/ \E dish \in Dishes : ClickAdd(dish)
    \/ \E id \in DishIds : ClickRemove(id)
    \/ \E value \in NameInputs : TypeName(value)
    \/ \E value \in RegistrationInputs : TypeRegistration(value)
    \/ \E value \in ObservationsInputs : TypeObservations(value)
    \/ ClickCartButton
    \/ ClickClosePanel

Next == Environment \/ Controls \/ ClickSubmit

Spec == Init /\ [][Next]_vars

\* Spec with a store that answers every call sent to it: the call at each
\* position gets an answer to the insert it awaits.
StoreAnswers ==
    \A i \in Calls :
        /\ WF_vars(HeaderCreated(i) \/ HeaderFailed(i))
        /\ WF_vars(ItemsCreated(i) \/ ItemsFailed(i))

SpecLive == Spec /\ StoreAnswers

\* Spec with room for one more order header, so that a submit request can be
\* made while an earlier one still awaits the store.
NextOverlap == Environment \/ Controls \/ ClickSubmitWithin(MaxOrders + 1)

SpecOverlap == Init /\ [][NextOverlap]_vars

NextHandlers ==
    \/ Environment
    \/ \E dish \in Dishes : addToCart(dish)
    \/ \E id \in DishIds : removeFromCart(id)
    \/ \E value \in NameInputs : handleNameChange(value)
    \/ \E value \in RegistrationInputs : handleRegistrationChange(value)
    \/ \E value \in ObservationsInputs : handleObservationsChange(value)
    \/ handleSubmitOrder
    \/ \E flag \in BOOLEAN : setIsCartOpen(flag)

SpecHandlers == Init /\ [][NextHandlers]_vars

\* The three change handlers, over FieldValues.
NextFields ==
    \/ \E value \in FieldValues : handleNameChange(value)
    \/ \E value \in FieldValues : handleRegistrationChange(value)
    \/ \E value \in FieldValues : handleObservationsChange(value)

SpecFields == Init /\ [][NextFields]_vars

\* The availability flag and the add button it gates, over ClockWindows and
\* ClockTimes.
NextClock ==
    \/ \E t \in ClockTimes : Tick(t)
    \/ \E data \in ClockWindows, t \in ClockTimes : FetchSettingsDone(data, t)
    \/ \E dish \in Dishes : ClickAdd(dish)
    \/ \E id \in DishIds : ClickRemove(id)
    \/ ClickCartButton
    \/ ClickClosePanel

SpecClock == Init /\ [][NextClock]_vars

\* Time passes by one step; the running interval fires when its delay has
\* elapsed, before more time passes.
Advance ==
    /\ now < MaxNow
    /\ intervalAge < Period
    /\ now' = now + 1
    /\ intervalAge' = intervalAge + 1
    /\ toasts' = <<>>
    /\ UNCHANGED << settings, isStoreOpen, session, inflight, store >>

IntervalFires == intervalAge = Period /\ Tick(Reading(now))

SettingsArrive == \E data \in TimedWindows : FetchSettingsDone(data, Reading(now))

\* The availability flag and the add button it gates, with the time that
\* passes between the events.
NextTimed ==
    \/ Advance
    \/ IntervalFires
    \/ SettingsArrive
    \/ \E dish \in Dishes : ClickAdd(dish)
    \/ \E id \in DishIds : ClickRemove(id)
    \/ ClickCartButton
    \/ ClickClosePanel

SpecTimed == Init /\ [][NextTimed]_vars

\* ===================================================================== claims
\* Rows of order_items that reference order k.
ItemsOfOrder(items, k) == { j \in 1..Len(items) : items[j].order_id = k }

\* Order k is an orphan: its header row is in the store, no call still works
\* on it, and no line item references it.
OrphanIn(k, infl, ords, items) ==
    /\ k \in 1..Len(ords)
    /\ \A i \in 1..Len(infl) : infl[i].order # k
    /\ ItemsOfOrder(items, k) = {}

\* C1: within one session at most one submission is in flight at a time (the
\* submit action is disabled while one is), so no two header creates overlap.
C1_AtMostOneInFlight == Len(inflight) <= 1

\* C2: when the items create fails after the header create succeeded, the
\* attempt ends with the failure notice, nothing is deleted from or written
\* to the store, the order's header is an orphan without line items and
\* stays one ever after, and the cart, the submitter fields and the panel
\* flag are untouched.
C2_ItemsFailureLeavesOrphan ==
    [][ /\ \A i \in 1..Len(inflight) :
              ItemsFailed(i) =>
                  /\ Len(inflight') = Len(inflight) - 1
                  /\ toasts' = <<MsgFailure>>
                  /\ orders' = orders
                  /\ order_items' = order_items
                  /\ OrphanIn(inflight[i].order, inflight', orders', order_items')
                  /\ session' = session
        /\ \A k \in 1..Len(orders) :
              OrphanIn(k, inflight, orders, order_items) =>
                  /\ OrphanIn(k, inflight', orders', order_items')
                  /\ orders'[k] = orders[k]
      ]_vars

\* An orphan header is in the store right after the failure notice, with the
\* cart and the fields still filled.
C2_Witness ==
    /\ toasts = <<MsgFailure>>
    /\ \E k \in 1..Len(orders) : OrphanIn(k, inflight, orders, order_items)
    /\ cart # <<>>
    /\ userName # <<>>
    /\ registration # <<>>
    /\ observations # <<>>
    /\ isCartOpen

\* C3: when the header create fails, the attempt ends with the failure notice
\* and leaves the in-flight calls: no items create is issued for it, the store
\* gets no record, and the cart, the fields and the panel flag are untouched.
C3_HeaderFailureKeepsSession ==
    [][ \A i \in 1..Len(inflight) :
            HeaderFailed(i) =>
                /\ Len(inflight') = Len(inflight) - 1
                /\ \A j \in 1..Len(inflight') :
                       \E h \in (1..Len(inflight)) \ {i} : inflight'[j] = inflight[h]
                /\ toasts' = <<MsgFailure>>
                /\ orders' = orders
                /\ order_items' = order_items
                /\ session' = session
      ]_vars

\* The failure notice with an empty store: the failed create was a header
\* create, and the cart and the fields are still filled.
C3_Witness ==
    /\ toasts = <<MsgFailure>>
    /\ orders = <<>>
    /\ order_items = <<>>
    /\ inflight = <<>>
    /\ cart # <<>>
    /\ userName # <<>>
    /\ registration # <<>>
    /\ observations # <<>>

\* C4: when the items create succeeds (after the header create did), the
\* attempt commits: it leaves the in-flight calls with the success notice, and
\* after that step the cart is empty, name, registration and notes are the
\* empty string and the cart panel is closed.
C4_CommitResetsSession ==
    [][ \A i \in 1..Len(inflight) :
            ItemsCreated(i) =>
                /\ inflight[i].order \in 1..Len(orders)
                /\ Len(inflight') = Len(inflight) - 1
                /\ toasts' = <<MsgSuccess>>
                /\ cart' = <<>>
                /\ userName' = <<>>
                /\ registration' = <<>>
                /\ observations' = <<>>
                /\ isCartOpen' = FALSE
      ]_vars

\* A commit of an order whose header carried notes has just happened.
C4_Witness ==
    /\ toasts = <<MsgSuccess>>
    /\ \E k \in 1..Len(orders) :
           /\ orders[k].observations # <<>>
           /\ ItemsOfOrder(order_items, k) # {}
    /\ cart = <<>>

NoDuplicateIds(c) ==
    \A i, j \in 1..Len(c) : i # j => c[i].id # c[j].id

\* C5: in every reachable state no two entries of the cart share an id, and
\* an add of an id that is already in the cart leaves the cart as it is.
C5_CartIdsUnique ==
    /\ []NoDuplicateIds(cart)
    /\ [][ \A dish \in Dishes :
               (addToCart(dish) /\ HasId(cart, dish.id)) => cart' = cart ]_vars

\* An add of an id that is in the cart was refused, with two entries listed.
C5_Witness ==
    /\ toasts = <<MsgDuplicate>>
    /\ Len(cart) = 2

\* C6: add(item) with the flag closed, or with the item's id already in the
\* cart, changes nothing (cart, fields, panel flag, flag, calls in flight,
\* store) and shows exactly one notice, that of the refusal.
C6_RefusedAddMutatesNothing ==
    [][ \A dish \in Dishes :
            (addToCart(dish) /\ (~isStoreOpen \/ HasId(cart, dish.id))) =>
                /\ session' = session
                /\ clock' = clock
                /\ inflight' = inflight
                /\ store' = store
                /\ toasts' = IF ~isStoreOpen THEN <<MsgClosed>>
                                             ELSE <<MsgDuplicate>>
      ]_vars

\* An add was refused because the flag reports closed, with an entry in the
\* cart from when it was open.
C6_Witness ==
    /\ toasts = <<MsgClosed>>
    /\ ~isStoreOpen
    /\ settings # Null
    /\ Len(cart) = 1

\* C7: a header create is issued only by a submit request made while the flag
\* reports open: a step that puts a call in flight starts from a state in
\* which the submit button is enabled, the flag open and the cart non-empty.
C7_HeaderOnlyWhileOpen ==
    [][ Len(inflight') > Len(inflight) =>
            (isStoreOpen /\ Len(cart) > 0 /\ ~SubmitDisabled) ]_vars

\* A header create is in flight and the flag has since turned closed.
C7_Witness ==
    /\ \E i \in 1..Len(inflight) : inflight[i].phase = "PersistingHeader"
    /\ ~isStoreOpen

\* The payload a call built for order id k from cart c: one record per entry,
\* in the cart's order, with the entry's id and k.
PayloadMatches(payload, c, k) ==
    /\ Len(payload) = Len(c)
    /\ \A j \in 1..Len(c) :
           /\ payload[j].dish_id = c[j].id
           /\ payload[j].order_id = k

\* C8: a call takes the cart of the render it was started from; when its
\* header create returns an id, the items create it issues carries exactly one
\* record per entry of that cart, each with the entry's item id and that id;
\* the rows the store adds are that payload, so no record references another
\* order.
C8_ItemsMatchCartAndOrder ==
    [][ /\ Len(inflight') > Len(inflight) =>
               inflight'[Len(inflight')].cart = cart
        /\ Len(orders') > Len(orders) =>
               \E i \in 1..Len(inflight) :
                   /\ inflight[i].phase = "PersistingHeader"
                   /\ inflight'[i].phase = "PersistingItems"
                   /\ inflight'[i].cart = inflight[i].cart
                   /\ inflight'[i].order = Len(orders')
                   /\ orders'[Len(orders')] = inflight[i].header
                   /\ PayloadMatches(inflight'[i].orderItems, inflight[i].cart,
                                     Len(orders'))
        /\ order_items' # order_items =>
               \E i \in 1..Len(inflight) :
                   /\ inflight[i].phase = "PersistingItems"
                   /\ order_items' = order_items \o inflight[i].orderItems
                   /\ PayloadMatches(inflight[i].orderItems, inflight[i].cart,
                                     inflight[i].order)
                   /\ ItemsOfOrder(order_items, inflight[i].order) = {}
      ]_vars

\* An order is in the store with two line items, in the order of the cart it
\* was submitted from.
C8_Witness ==
    /\ Len(orders) = 1
    /\ order_items = << [order_id |-> 1, dish_id |-> "o2"],
                        [order_id |-> 1, dish_id |-> "o1"] >>

NameFails == userName = <<>> \/ ~validateName(userName)
RegistrationFails == registration = <<>> \/ ~validateRegistration(registration)
ObservationsFail == observations # <<>> /\ ~validateObservations(observations)
CartFails == Len(cart) = 0

\* C9: a submit request reports exactly one message, that of the first
\* failing check in the order name, registration, notes, cart, and none when
\* all four pass; with a failing name and an empty cart it is the name's.
C9_FirstFailureWins ==
    [][ handleSubmitOrder =>
            toasts' = IF NameFails THEN <<MsgName>>
                      ELSE IF RegistrationFails THEN <<MsgRegistration>>
                      ELSE IF ObservationsFail THEN <<MsgObservations>>
                      ELSE IF CartFails THEN <<MsgEmptyCart>>
                      ELSE <<>>
      ]_vars

\* The name error was reported with the name failing and the cart empty.
C9_Witness ==
    /\ toasts = <<MsgName>>
    /\ NameFails
    /\ CartFails

\* C10: a submit request with a failing check puts no call in flight (no
\* header create, no items create), writes nothing to the store and leaves
\* the cart, the fields and the panel flag as they were.
C10_FailedValidationChangesNothing ==
    [][ (handleSubmitOrder
           /\ (NameFails \/ RegistrationFails \/ ObservationsFail \/ CartFails)) =>
            /\ inflight' = inflight
            /\ store' = store
            /\ session' = session
            /\ clock' = clock
            /\ Len(toasts') = 1
      ]_vars

\* The registration error was reported for a registration of two digits, with
\* a name and an entry in the cart.
C10_Witness ==
    /\ toasts = <<MsgRegistration>>
    /\ registration = <<"1", "2">>
    /\ ~NameFails
    /\ ~CartFails

\* C11: the cart is emptied as a whole only by the commit of a submission:
\* a step that shortens the cart is a commit or a remove that takes out one
\* entry, and a clock tick, a new window, a failed validation, a failed
\* header create and a failed items create leave the cart as it is.
C11_CartClearedOnlyByCommit ==
    [][ /\ Len(cart') < Len(cart) =>
               \/ /\ \E i \in 1..Len(inflight) : ItemsCreated(i)
                  /\ toasts' = <<MsgSuccess>>
               \/ /\ \E id \in DishIds : removeFromCart(id)
                  /\ Len(cart') = Len(cart) - 1
        /\ (\E t \in Times : Tick(t)) => cart' = cart
        /\ (\E data \in Windows, t \in Times : FetchSettingsDone(data, t)) =>
               cart' = cart
        /\ (\E i \in 1..Len(inflight) : HeaderFailed(i) \/ ItemsFailed(i)) =>
               cart' = cart
        /\ (handleSubmitOrder
              /\ ValidationError(userName, registration, observations, cart)
                     # NoError) =>
               cart' = cart
      ]_vars

\* A commit has just emptied a cart of two entries.
C11_Witness ==
    /\ toasts = <<MsgSuccess>>
    /\ cart = <<>>
    /\ Len(order_items) = 2
    /\ inflight = <<>>

\* C12: the flag is false in every state in which no window is loaded, and
\* false after every recomputation made when the clock reads a Sunday,
\* whatever the time read and the window.
C12_ClosedWithoutWindowAndOnSunday ==
    /\ [](settings = Null => ~isStoreOpen)
    /\ [][ \A t \in ClockTimes :
               t.day = 0 =>
                   /\ (Tick(t) /\ settings # Null) => ~isStoreOpen'
                   /\ \A data \in ClockWindows :
                          FetchSettingsDone(data, t) => ~isStoreOpen'
         ]_vars

\* The flag reports closed under the window of the whole day, with an entry
\* in the cart from when it reported open: the clock has read a Sunday.
C12_Witness ==
    /\ settings = AllDayWindow
    /\ ~isStoreOpen
    /\ Len(cart) > 0

\* Minutes since midnight of the first two fields of a time.
MinuteOfDay(h, m) == h * 60 + m

\* Reading t is within window w, both bounds included.
WithinWindow(t, w) ==
    /\ MinuteOfDay(w.opening_time[1], w.opening_time[2])
           <= MinuteOfDay(t.hours, t.minutes)
    /\ MinuteOfDay(t.hours, t.minutes)
           <= MinuteOfDay(w.closing_time[1], w.closing_time[2])

\* C13: with a window loaded and a clock that reads a day other than Sunday,
\* a recomputation sets the flag to true iff opening minute <= minute of the
\* day <= closing minute, in minutes since midnight, both bounds included.
C13_OpenIffWithinWindow ==
    [][ \A t \in ClockTimes :
            t.day # 0 =>
                /\ (Tick(t) /\ settings # Null) =>
                       (isStoreOpen' <=> WithinWindow(t, settings))
                /\ \A data \in ClockWindows :
                       FetchSettingsDone(data, t) =>
                           (isStoreOpen' <=> WithinWindow(t, data))
      ]_vars

\* The flag reports open under the window of a single minute: the clock read
\* the minute that is both its opening and its closing bound.
C13_Witness ==
    /\ settings = OneMinuteWindow
    /\ isStoreOpen

\* Sixty seconds, in steps of 30 s.
SixtySeconds == 60 \div 30

\* The window loaded is open n steps after the mount.
TrulyOpen(n) == Reading(n).day # 0 /\ WithinWindow(Reading(n), settings)

C15_ClosingTickKeepsSubmission ==
    /\ [][ (isStoreOpen /\ ~isStoreOpen') =>
               /\ inflight' = inflight
               /\ store' = store
               /\ session' = session
         ]_vars
    /\ [][ \A i \in 1..Len(inflight) :
               (~isStoreOpen /\ HeaderCreated(i)) =>
                   /\ inflight'[i].phase = "PersistingItems"
                   /\ Len(orders') = Len(orders) + 1
         ]_vars
    /\ [](~isStoreOpen =>
             \A i \in 1..Len(inflight) :
                 /\ inflight[i].phase = "PersistingHeader" =>
                        (ENABLED HeaderCreated(i)) /\ (ENABLED HeaderFailed(i))
                 /\ inflight[i].phase = "PersistingItems" =>
                        (ENABLED ItemsCreated(i)) /\ (ENABLED ItemsFailed(i)))

\* A submission has committed with the flag closed: the flag was open when
\* the submit button was pressed and turned closed while the call was in
\* flight.
C15_Witness ==
    /\ toasts = <<MsgSuccess>>
    /\ ~isStoreOpen
    /\ Len(orders) = 1
    /\ Len(order_items) > 0
    /\ inflight = <<>>

\* The oldest call in flight gets an answer of the store.
OldestAnswered ==
    HeaderCreated(1) \/ HeaderFailed(1) \/ ItemsCreated(1) \/ ItemsFailed(1)

\* C16: provided the store answers each call, every submit attempt ends: a
\* failing check ends it in the step of the request, and a call in flight
\* leaves the calls in flight (again and again no call is in flight, or
\* again and again the oldest call gets an answer, of which it awaits at
\* most two); a failed header or items create leaves the session and the
\* submit button as they were, so that, when the session is still the one
\* submitted, a new request passes the four checks again.
C16_EveryAttemptEnds ==
    /\ ([]<>(inflight = <<>>)) \/ ([]<><<OldestAnswered>>_vars)
    /\ [][ (handleSubmitOrder
              /\ ValidationError(userName, registration, observations, cart)
                     # NoError) =>
               inflight' = inflight
         ]_vars
    /\ [][ \A i \in 1..Len(inflight) :
               (HeaderFailed(i) \/ ItemsFailed(i)) =>
                   /\ Len(inflight') = Len(inflight) - 1
                   /\ session' = session
                   /\ SubmitDisabled' = SubmitDisabled
                   /\ ( /\ cart = inflight[i].cart
                        /\ userName = inflight[i].header.user_name
                        /\ registration = inflight[i].header.registration
                        /\ observations = inflight[i].header.observations ) =>
                          ValidationError(userName', registration',
                                          observations', cart') = NoError
         ]_vars

\* An attempt has failed at its items create and the session is idle again,
\* with the submit button enabled and a cart and fields that pass the checks.
C16_Witness ==
    /\ toasts = <<MsgFailure>>
    /\ inflight = <<>>
    /\ Len(orders) = 1
    /\ isCartOpen
    /\ ~SubmitDisabled
    /\ ValidationError(userName, registration, observations, cart) = NoError

\* C17: remove(id) takes out of the cart the entry with that id and keeps
\* the other entries in their order; when no entry has the id the cart stays
\* as it is; in both cases the only notice is the one of a removal, not an
\* error, and the submitter fields, the flag and the window are unchanged.
C17_RemoveTakesOutOneEntry ==
    [][ \A id \in DishIds :
            removeFromCart(id) =>
                /\ IF HasId(cart, id)
                   THEN \E k \in 1..Len(cart) :
                            /\ cart[k].id = id
                            /\ cart' = RemoveAt(cart, k)
                   ELSE cart' = cart
                /\ toasts' = <<MsgRemoved>>
                /\ userName' = userName
                /\ registration' = registration
                /\ observations' = observations
                /\ isStoreOpen' = isStoreOpen
                /\ settings' = settings
      ]_vars

\* A removal was made with both dishes in the cart and they are still there:
\* the id was that of no entry.
C17_Witness ==
    /\ toasts = <<MsgRemoved>>
    /\ Len(cart) = 2

\* The place in cart c of the entry with the id.
PlaceOf(c, id) == CHOOSE k \in 1..Len(c) : c[k].id = id

\* Cart d lists the entries it has of cart c in the order c lists them, and
\* the entries c did not have after them.
KeepsOrder(c, d) ==
    \A a, b \in 1..Len(d) :
        (a < b /\ HasId(c, d[b].id)) =>
            /\ HasId(c, d[a].id)
            /\ PlaceOf(c, d[a].id) < PlaceOf(c, d[b].id)

\* C18: an add with the flag open and an id the cart does not have puts the
\* entry (the dish's id and name) after the entries the cart had and opens
\* the cart panel; and no step changes the order of the entries that stay:
\* the cart lists its entries in the order in which they were added.
C18_AddAppendsInOrder ==
    [][ /\ \A dish \in Dishes :
               (addToCart(dish) /\ isStoreOpen /\ ~HasId(cart, dish.id)) =>
                   /\ Len(cart') = Len(cart) + 1
                   /\ SubSeq(cart', 1, Len(cart)) = cart
                   /\ cart'[Len(cart')] = [id |-> dish.id, name |-> dish.name]
                   /\ isCartOpen'
                   /\ toasts' = <<MsgAdded>>
        /\ KeepsOrder(cart, cart')
      ]_vars

\* The second dish of the menu was added before the first, which is the
\* last one added: the panel is open and lists them in that order.
C18_Witness ==
    /\ toasts = <<MsgAdded>>
    /\ isCartOpen
    /\ cart = << [id |-> "o2", name |-> "Moqueca"],
                 [id |-> "o1", name |-> "Feijoada"] >>

\* A string of at most four decimal digits.
UpToFourDigits(v) == Len(v) <= 4 /\ \A i \in 1..Len(v) : v[i] \in Digits

\* C19 as stated: for each of the three fields a non-empty value is taken by
\* the field's change handler iff the field's validator accepts it at
\* submission.
C19_SamePredicateAtKeystrokeAndSubmit ==
    [][ \A v \in FieldValues :
            v # <<>> =>
                /\ handleNameChange(v) =>
                       ((userName' = v) <=> validateName(v))
                /\ handleRegistrationChange(v) =>
                       ((registration' = v) <=> validateRegistration(v))
                /\ handleObservationsChange(v) =>
                       ((observations' = v) <=> validateObservations(v))
      ]_vars

\* C19 as amended: for the name and the notes a non-empty value is taken by
\* the change handler iff the validator accepts it at submission; for the
\* registration the change handler takes exactly the strings of at most four
\* decimal digits, which are all the values the validator accepts and also
\* the strings of one to three digits, which it rejects.
C19_KeystrokeTakesWhatSubmitAccepts ==
    [][ \A v \in FieldValues :
            v # <<>> =>
                /\ handleNameChange(v) =>
                       ((userName' = v) <=> validateName(v))
                /\ handleObservationsChange(v) =>
                       ((observations' = v) <=> validateObservations(v))
                /\ handleRegistrationChange(v) =>
                       /\ (registration' = v) <=> UpToFourDigits(v)
                       /\ validateRegistration(v) => registration' = v
      ]_vars

\* The registration holds a value the change handler took and the validator
\* rejects, next to a name and notes that their validators accept.
C19_Witness ==
    /\ registration # <<>>
    /\ ~validateRegistration(registration)
    /\ validateName(userName)
    /\ observations # <<>>
    /\ validateObservations(observations)

\* C20: in every reachable state the name is empty or accepted by
\* validateName, the notes are accepted by validateObservations and the
\* registration is a string of at most four decimal digits; hence no submit
\* request reports the notes, and one that reports the name finds it empty.
C20_StoredFieldsWellFormed ==
    /\ [](/\ userName = <<>> \/ validateName(userName)
          /\ validateObservations(observations)
          /\ UpToFourDigits(registration))
    /\ [][ handleSubmitOrder =>
               /\ toasts' # <<MsgObservations>>
               /\ toasts' = <<MsgName>> => userName = <<>>
         ]_vars

\* A submit request has reported the name, which is empty, with notes and a
\* registration of fewer than four digits stored.
C20_Witness ==
    /\ toasts = <<MsgName>>
    /\ userName = <<>>
    /\ observations # <<>>
    /\ registration # <<>>
    /\ ~validateRegistration(registration)

\* C21: when a submission commits, every entry the commit takes out of the
\* cart has a line item under the order committed, every line item of that
\* order is for an entry of the cart, and the name, the registration and the
\* notes the commit resets are those of the order's header: what was added,
\* removed or typed while the call was in flight is not discarded unsaved.
C21_CommitDiscardsNothingUnsaved ==
    [][ \A i \in 1..Len(inflight) :
            ItemsCreated(i) =>
                /\ \A k \in 1..Len(cart) :
                       \E j \in ItemsOfOrder(order_items', inflight[i].order) :
                           order_items'[j].dish_id = cart[k].id
                /\ \A j \in ItemsOfOrder(order_items', inflight[i].order) :
                       HasId(cart, order_items'[j].dish_id)
                /\ orders[inflight[i].order] =
                       [ user_name |-> userName,
                         registration |-> registration,
                         observations |-> observations ]
      ]_vars

====
